---- MODULE Spec2Model ----
(***************************************************************************)
(* Model of yf_patchkernel.c: a table of patch entries is scanned against  *)
(* kernel text (an array of instruction words); yf_patchkernel_patch       *)
(* replaces one word per entry, yf_patchkernel_restore writes the saved    *)
(* words back.                                                             *)
(***************************************************************************)
EXTENDS Integers, Sequences, FiniteSets, TLC

VARIABLES
    mem,              \* kernel text: address -> instruction word
    patches,          \* the table of patchEntry_t (without the end marker)
    patches_applied,  \* the static counter set by yf_patchkernel_init
    pc,               \* "idle", "patch" (inside yf_patchkernel_patch), "restore"
    patch,            \* index of the entry the running loop looks at
    applied,          \* the local patches_applied of yf_patchkernel_patch
    last,             \* history: what the last loop iteration did
    log,              \* history: every iteration of the running pass, in order
    memStart,         \* history: mem when the running pass was entered
    patchesStart,     \* history: patches when the running pass was entered
    prevPass,         \* history: the pass that ran before the running one
    outstanding       \* history: entries patched by a pass and not reversed since

vars == <<mem, patches, patches_applied, pc, patch, applied,
          last, log, memStart, patchesStart, prevPass, outstanding>>

----------------------------------------------------------------------------
(* Bounds of the model *)

MaxWindow == 2    \* largest startOffset + maxOffset of an entry
NumPatches == 2   \* entries of the table in the specification Spec

(* Instruction words are two bits wide: MIPS_AND_MASK has all bits set *)
MIPS_AND_MASK == 3

NULL == 0

Word == 0 .. MIPS_AND_MASK
Bit == 0 .. 1

(* patchOffset and verifyOffset are 0 or 1, as in patchesForTunDevice *)
RelOffsets == 0 .. 1

(* The kernel text: the windows and the words the offsets reach behind them *)
MemSize == MaxWindow + 1
Addr == 1 .. MemSize

----------------------------------------------------------------------------
(* The C operators & and | on unsigned words *)

RECURSIVE BitAnd(_, _)
BitAnd(a, b) ==
    IF a = 0 \/ b = 0 THEN 0
    ELSE (a % 2) * (b % 2) + 2 * BitAnd(a \div 2, b \div 2)

RECURSIVE BitOr(_, _)
BitOr(a, b) ==
    IF a = 0 THEN b
    ELSE IF b = 0 THEN a
    ELSE (IF a % 2 = 1 \/ b % 2 = 1 THEN 1 ELSE 0) + 2 * BitOr(a \div 2, b \div 2)

----------------------------------------------------------------------------
(* The symbol resolver: "f" is a kernel function at address 1, "g" is not  *)
(* a symbol of the running kernel.                                         *)

Symbols == {"f", "g"}

kallsyms_lookup_name(fname) == IF fname = "f" THEN 1 ELSE NULL

----------------------------------------------------------------------------
(* The for loop of yf_patchkernel_patch over one entry e, from the word at *)
(* ptr, with offset iterations done and reads the addresses read so far.   *)

ScanResult(kind, pos, reads, examined) ==
    [kind |-> kind, pos |-> pos, reads |-> reads, examined |-> examined]

Read(role, addr) == [role |-> role, addr |-> addr]

(* Mutant: the pattern is compared before the word at patchOffset *)
RECURSIVE ScanLoop_PatternFirst(_, _, _, _, _)
ScanLoop_PatternFirst(m, e, ptr, offset, reads) ==
    IF ~(offset < e.maxOffset)
    THEN ScanResult("NotFound", NULL, reads, offset)
    ELSE LET value == BitOr(BitAnd(m[ptr], e.andMask), e.orMask)
             orgValue == m[ptr + e.patchOffset]
             r1 == reads \cup {Read("pattern", ptr),
                                 Read("patch", ptr + e.patchOffset)}
             r2 == r1 \cup {Read("verify", ptr + e.verifyOffset)}
             verified ==
                 e.verifyOffset = 0 \/
                 BitOr(BitAnd(m[ptr + e.verifyOffset], e.verifyAndMask),
                       e.verifyOrMask) = e.verifyValue
         IN  IF value = e.lookFor /\ verified
             THEN ScanResult("Found", ptr, IF e.verifyOffset # 0 THEN r2 ELSE r1,
                             offset + 1)
             ELSE IF orgValue = e.patchValue
             THEN ScanResult("AlreadyApplied", ptr, r1, offset + 1)
             ELSE ScanLoop_PatternFirst(m, e, ptr + 1, offset + 1,
                      IF value = e.lookFor /\ e.verifyOffset # 0 THEN r2 ELSE r1)

(* Mutant: a failed verification ends the scan *)
RECURSIVE ScanLoop_VerifyBreaks(_, _, _, _, _)
ScanLoop_VerifyBreaks(m, e, ptr, offset, reads) ==
    IF ~(offset < e.maxOffset)
    THEN ScanResult("NotFound", NULL, reads, offset)
    ELSE LET value == BitOr(BitAnd(m[ptr], e.andMask), e.orMask)
             orgValue == m[ptr + e.patchOffset]
             r1 == reads \cup {Read("pattern", ptr),
                                 Read("patch", ptr + e.patchOffset)}
         IN  IF orgValue = e.patchValue
             THEN ScanResult("AlreadyApplied", ptr, r1, offset + 1)
             ELSE IF value = e.lookFor
             THEN IF e.verifyOffset # 0
                  THEN LET verify == BitOr(BitAnd(m[ptr + e.verifyOffset],
                                                  e.verifyAndMask),
                                           e.verifyOrMask)
                           r2 == r1 \cup {Read("verify", ptr + e.verifyOffset)}
                       IN  IF verify # e.verifyValue
                           THEN ScanResult("NotFound", NULL, r2, offset + 1)
                           ELSE ScanResult("Found", ptr, r2, offset + 1)
                  ELSE ScanResult("Found", ptr, r1, offset + 1)
             ELSE ScanLoop_VerifyBreaks(m, e, ptr + 1, offset + 1, r1)

(* Mutant: the word at patchOffset is not compared with patchValue *)
RECURSIVE ScanLoop_NoAppliedCheck(_, _, _, _, _)
ScanLoop_NoAppliedCheck(m, e, ptr, offset, reads) ==
    IF ~(offset < e.maxOffset)
    THEN ScanResult("NotFound", NULL, reads, offset)
    ELSE LET value == BitOr(BitAnd(m[ptr], e.andMask), e.orMask)
             r1 == reads \cup {Read("pattern", ptr),
                                 Read("patch", ptr + e.patchOffset)}
         IN  IF value = e.lookFor
             THEN IF e.verifyOffset # 0
                  THEN LET verify == BitOr(BitAnd(m[ptr + e.verifyOffset],
                                                  e.verifyAndMask),
                                           e.verifyOrMask)
                           r2 == r1 \cup {Read("verify", ptr + e.verifyOffset)}
                       IN  IF verify # e.verifyValue
                           THEN ScanLoop_NoAppliedCheck(m, e, ptr + 1, offset + 1, r2)
                           ELSE ScanResult("Found", ptr, r2, offset + 1)
                  ELSE ScanResult("Found", ptr, r1, offset + 1)
             ELSE ScanLoop_NoAppliedCheck(m, e, ptr + 1, offset + 1, r1)

(* Mutant: the verification is made for a verifyOffset of zero as well *)
RECURSIVE ScanLoop_VerifiesAlways(_, _, _, _, _)
ScanLoop_VerifiesAlways(m, e, ptr, offset, reads) ==
    IF ~(offset < e.maxOffset)
    THEN ScanResult("NotFound", NULL, reads, offset)
    ELSE LET value == BitOr(BitAnd(m[ptr], e.andMask), e.orMask)
             orgValue == m[ptr + e.patchOffset]
             r1 == reads \cup {Read("pattern", ptr),
                                 Read("patch", ptr + e.patchOffset)}
         IN  IF orgValue = e.patchValue
             THEN ScanResult("AlreadyApplied", ptr, r1, offset + 1)
             ELSE IF value = e.lookFor
             THEN LET verify == BitOr(BitAnd(m[ptr + e.verifyOffset],
                                             e.verifyAndMask),
                                      e.verifyOrMask)
                      r2 == r1 \cup {Read("verify", ptr + e.verifyOffset)}
                  IN  IF verify # e.verifyValue
                      THEN ScanLoop_VerifiesAlways(m, e, ptr + 1, offset + 1, r2)
                      ELSE ScanResult("Found", ptr, r2, offset + 1)
             ELSE ScanLoop_VerifiesAlways(m, e, ptr + 1, offset + 1, r1)

RECURSIVE ScanLoop(_, _, _, _, _)
ScanLoop(m, e, ptr, offset, reads) ==
    IF ~(offset < e.maxOffset)
    THEN ScanResult("NotFound", NULL, reads, offset)
    ELSE LET value == BitOr(BitAnd(m[ptr], e.andMask), e.orMask)
             orgValue == m[ptr + e.patchOffset]
             r1 == reads \cup {Read("pattern", ptr),
                                 Read("patch", ptr + e.patchOffset)}
         IN  IF orgValue = e.patchValue
             THEN ScanResult("AlreadyApplied", ptr, r1, offset + 1)
             ELSE IF value = e.lookFor
             THEN IF e.verifyOffset # 0
                  THEN LET verify == BitOr(BitAnd(m[ptr + e.verifyOffset],
                                                  e.verifyAndMask),
                                           e.verifyOrMask)
                           r2 == r1 \cup {Read("verify", ptr + e.verifyOffset)}
                       IN  IF verify # e.verifyValue
                           THEN ScanLoop(m, e, ptr + 1, offset + 1, r2)
                           ELSE ScanResult("Found", ptr, r2, offset + 1)
                  ELSE ScanResult("Found", ptr, r1, offset + 1)
             ELSE ScanLoop(m, e, ptr + 1, offset + 1, r1)

(* Mutant: the hit itself is patched, patchOffset is dropped *)
ApplyPatch_NoOffset(e, m, ptr) ==
    [e EXCEPT !.patchAddress = ptr, !.originalValue = m[ptr], !.isPatched = 1]

(* The patch written for a hit at ptr: the entry's result fields *)
ApplyPatch(e, m, ptr) ==
    LET patchAddress == ptr + e.patchOffset
    IN  [e EXCEPT !.patchAddress = patchAddress,
                  !.originalValue = m[patchAddress],
                  !.isPatched = 1]

(* The iteration for a resolved symbol at ptr, scanning from first *)
PatchResolved(m, e, ptr, first) ==
    LET e1 == [e EXCEPT !.startAddress = ptr]
        s == ScanLoop(m, e1, first, 0, {})
    IN  IF s.kind = "Found"
        THEN LET e2 == ApplyPatch(e1, m, s.pos)
             IN  [mem |-> [m EXCEPT ![e2.patchAddress] = e.patchValue],
                  entry |-> e2, applied |-> 1, scan |-> s,
                  writes |-> {e2.patchAddress}]
        ELSE [mem |-> m, entry |-> e1, applied |-> 0, scan |-> s, writes |-> {}]

PatchUnresolved(m, e) ==
    [mem |-> m, entry |-> e, applied |-> 0,
     scan |-> ScanResult("Unresolved", NULL, {}, 0), writes |-> {}]

(* Mutant: startOffset is not skipped *)
PatchEntry_NoStartOffset(m, e) ==
    LET ptr == kallsyms_lookup_name(e.fname)
    IN  IF ptr = NULL THEN PatchUnresolved(m, e)
        ELSE PatchResolved(m, e, ptr, ptr)

(* Mutant: an instruction found patched already is counted as applied *)
PatchEntry_CountsAlready(m, e) ==
    LET ptr == kallsyms_lookup_name(e.fname)
    IN  IF ptr = NULL THEN PatchUnresolved(m, e)
        ELSE LET r == PatchResolved(m, e, ptr, ptr + e.startOffset)
             IN  IF r.scan.kind = "AlreadyApplied"
                 THEN [r EXCEPT !.applied = 1]
                 ELSE r

(* Mutant: an entry whose symbol is missing is marked as patched *)
PatchEntry_UnresolvedPatched(m, e) ==
    LET ptr == kallsyms_lookup_name(e.fname)
    IN  IF ptr = NULL
        THEN [PatchUnresolved(m, e) EXCEPT !.entry = [e EXCEPT !.isPatched = 1]]
        ELSE PatchResolved(m, e, ptr, ptr + e.startOffset)

(* One iteration of the while loop of yf_patchkernel_patch *)
PatchEntry(m, e) ==
    LET ptr == kallsyms_lookup_name(e.fname)
    IN  IF ptr = NULL
        THEN PatchUnresolved(m, e)
        ELSE PatchResolved(m, e, ptr, ptr + e.startOffset)

(* Mutant: the saved word is written back whether or not isPatched is set *)
RestoreEntry_IgnoresFlag(m, e) ==
    IF e.patchAddress # NULL
    THEN [mem |-> [m EXCEPT ![e.patchAddress] = e.originalValue],
          entry |-> [e EXCEPT !.isPatched = 0],
          writes |-> {e.patchAddress}]
    ELSE [mem |-> m, entry |-> e, writes |-> {}]

(* Mutant: the result fields are cleared together with isPatched *)
RestoreEntry_ClearsFields(m, e) ==
    IF e.isPatched # 0
    THEN [mem |-> [m EXCEPT ![e.patchAddress] = e.originalValue],
          entry |-> [e EXCEPT !.isPatched = 0, !.patchAddress = NULL,
                              !.originalValue = 0],
          writes |-> {e.patchAddress}]
    ELSE [mem |-> m, entry |-> e, writes |-> {}]

(* Mutant: the saved word is written back and isPatched stays set *)
RestoreEntry_KeepsFlag(m, e) ==
    IF e.isPatched # 0
    THEN [mem |-> [m EXCEPT ![e.patchAddress] = e.originalValue],
          entry |-> e,
          writes |-> {e.patchAddress}]
    ELSE [mem |-> m, entry |-> e, writes |-> {}]

(* Mutant: the saved word is written to the start of the function *)
RestoreEntry_WritesStart(m, e) ==
    IF e.isPatched # 0
    THEN [mem |-> [m EXCEPT ![e.startAddress] = e.originalValue],
          entry |-> [e EXCEPT !.isPatched = 0],
          writes |-> {e.startAddress}]
    ELSE [mem |-> m, entry |-> e, writes |-> {}]

(* One iteration of the while loop of yf_patchkernel_restore *)
RestoreEntry(m, e) ==
    IF e.isPatched # 0
    THEN [mem |-> [m EXCEPT ![e.patchAddress] = e.originalValue],
          entry |-> [e EXCEPT !.isPatched = 0],
          writes |-> {e.patchAddress}]
    ELSE [mem |-> m, entry |-> e, writes |-> {}]

(* The while loop of yf_patchkernel_patch from entry i on: n counts the   *)
(* patches applied so far, kinds collects the outcome of every entry      *)
RECURSIVE PatchLoop(_, _, _, _, _)
PatchLoop(m, ps, i, n, kinds) ==
    IF i > Len(ps)
    THEN [mem |-> m, patches |-> ps, patches_applied |-> n, kinds |-> kinds]
    ELSE LET r == PatchEntry(m, ps[i])
         IN  PatchLoop(r.mem, [ps EXCEPT ![i] = r.entry], i + 1, n + r.applied,
                       Append(kinds, r.scan.kind))

(* A whole pass of yf_patchkernel_patch over the table ps *)
yf_patchkernel_patch(m, ps) == PatchLoop(m, ps, 1, 0, <<>>)

(* The while loop of yf_patchkernel_restore from entry i on *)
RECURSIVE RestoreLoop(_, _, _)
RestoreLoop(m, ps, i) ==
    IF i > Len(ps)
    THEN [mem |-> m, patches |-> ps]
    ELSE LET r == RestoreEntry(m, ps[i])
         IN  RestoreLoop(r.mem, [ps EXCEPT ![i] = r.entry], i + 1)

(* A whole pass of yf_patchkernel_restore over the table ps *)
yf_patchkernel_restore(m, ps) == RestoreLoop(m, ps, 1)

----------------------------------------------------------------------------
(* The table: static configuration, result fields zero initialised *)

(* window = <<startOffset, maxOffset>>, look = <<lookFor, andMask, orMask>>,  *)
(* verify = <<verifyOffset, verifyValue, verifyAndMask, verifyOrMask>>        *)
PatchEntryOf(fname, window, look, verify, patchOffset, patchValue) ==
    [fname |-> fname, startAddress |-> NULL,
     startOffset |-> window[1], maxOffset |-> window[2],
     lookFor |-> look[1], andMask |-> look[2], orMask |-> look[3],
     verifyOffset |-> verify[1], verifyValue |-> verify[2],
     verifyAndMask |-> verify[3], verifyOrMask |-> verify[4],
     patchOffset |-> patchOffset, patchValue |-> patchValue,
     patchAddress |-> NULL, originalValue |-> 0, isPatched |-> 0]

Windows ==
    {w \in (0 .. MaxWindow) \X (1 .. MaxWindow) : w[1] + w[2] <= MaxWindow}

(* An entry whose symbol does not resolve is never scanned: one stands for all *)
UnresolvedEntry ==
    PatchEntryOf("g", <<0, MaxWindow>>, <<1, MIPS_AND_MASK, 0>>,
                 <<0, 0, MIPS_AND_MASK, 0>>, 0, 0)

(* <<AND mask, OR mask>>: compare all bits, or ignore the low bit *)
MaskPairs == {<<MIPS_AND_MASK, 0>>, <<MIPS_AND_MASK - 1, 1>>}

(* <<value, AND mask, OR mask>> with a value the masked word can take *)
Patterns ==
    {<<v, mp[1], mp[2]>> : v \in Word, mp \in MaskPairs} \cap
    {<<BitOr(BitAnd(w, mp[1]), mp[2]), mp[1], mp[2]>> : w \in Word, mp \in MaskPairs}

(* The verifications: the word is all ones, or its high bit is clear *)
Verifications == {<<MIPS_AND_MASK, MIPS_AND_MASK, 0>>, <<1, MIPS_AND_MASK - 1, 1>>}

(* Entries of the one-entry tables: every window, pattern, mask and offset *)
ScanEntries ==
    {PatchEntryOf("f", w, lf, <<vo, v[1], v[2], v[3]>>, po, pv) :
        w \in Windows, lf \in Patterns, vo \in RelOffsets, v \in Verifications,
        po \in RelOffsets, pv \in Word}
    \cup {UnresolvedEntry}

(* Entries that look at one word only and set it in place if it is clear *)
OneWordEntries ==
    {PatchEntryOf("f", <<so, 1>>, <<0, MIPS_AND_MASK, 0>>,
                  <<0, 0, MIPS_AND_MASK, 0>>, 0, 1) : so \in RelOffsets}

(* Entries of the longer tables: one bit patterns over the whole window, *)
(* and the entries whose windows are apart                               *)
TableEntries ==
    {PatchEntryOf("f", <<0, MaxWindow>>, <<lf, MIPS_AND_MASK, 0>>,
                  <<vo, 1, MIPS_AND_MASK, 0>>, po, pv) :
        lf \in Bit, vo \in RelOffsets, po \in RelOffsets, pv \in Bit}
    \cup OneWordEntries \cup {UnresolvedEntry}

(* Entries of the tables whose passes are followed to their return: the *)
(* whole window, the low bit of the word found flipped in place, with   *)
(* and without verification                                             *)
RunEntries ==
    {PatchEntryOf("f", <<0, MaxWindow>>, <<lf, MIPS_AND_MASK, 0>>,
                  <<vo, 1, MIPS_AND_MASK, 0>>, 0, 1 - lf) :
        lf \in Bit, vo \in RelOffsets}
    \cup {UnresolvedEntry}

NoStep == [op |-> "none", idx |-> 0, kind |-> "none", pos |-> NULL,
           reads |-> {}, writes |-> {}, examined |-> 0]

InitRest ==
    /\ patches_applied = 0
    /\ pc = "idle"
    /\ patch = 0
    /\ applied = 0
    /\ last = NoStep
    /\ log = <<>>
    /\ memStart = mem
    /\ patchesStart = patches
    /\ prevPass = "none"
    /\ outstanding = {}

Init ==
    /\ mem \in [Addr -> Bit]
    /\ patches \in [1 .. NumPatches -> TableEntries]
    /\ InitRest

InitRun ==
    /\ mem \in [Addr -> Bit]
    /\ patches \in [1 .. NumPatches -> RunEntries]
    /\ InitRest

InitScan ==
    /\ mem \in [Addr -> Word]
    /\ patches \in [1 .. 1 -> ScanEntries]
    /\ InitRest

----------------------------------------------------------------------------
(* The pass that returned last: what the next call records as prevPass *)
LastPass ==
    IF last.op = "patchReturn" THEN "patch"
    ELSE IF last.op = "restoreReturn" THEN "restore"
    ELSE "none"

(* yf_patchkernel_init calls yf_patchkernel_patch(patchesForTunDevice) *)
PatchCall ==
    /\ pc = "idle"
    /\ pc' = "patch"
    /\ patch' = 1
    /\ applied' = 0
    /\ last' = NoStep
    /\ log' = <<>>
    /\ memStart' = mem
    /\ patchesStart' = patches
    /\ prevPass' = LastPass
    /\ UNCHANGED <<mem, patches, patches_applied, outstanding>>

(* Mutant: the loop is left at the first entry that is not patched *)
PatchStep_AbortOnFailure ==
    /\ pc = "patch"
    /\ patch <= Len(patches)
    /\ LET r == PatchEntry(mem, patches[patch])
       IN  /\ mem' = r.mem
           /\ patches' = [patches EXCEPT ![patch] = r.entry]
           /\ applied' = applied + r.applied
           /\ last' = [op |-> "patch", idx |-> patch, kind |-> r.scan.kind,
                       pos |-> r.scan.pos, reads |-> r.scan.reads,
                       writes |-> r.writes, examined |-> r.scan.examined]
           /\ log' = Append(log, [idx |-> patch, kind |-> r.scan.kind,
                                  writes |-> r.writes, mem |-> mem])
           /\ outstanding' = IF r.scan.kind = "Found"
                              THEN outstanding \cup {patch}
                              ELSE outstanding
           /\ patch' = IF r.applied = 0 THEN Len(patches) + 1 ELSE patch + 1
    /\ UNCHANGED <<patches_applied, pc, memStart, patchesStart, prevPass>>

(* Mutant: an entry that is not patched is tried again and again *)
PatchStep_RetriesFailure ==
    /\ pc = "patch"
    /\ patch <= Len(patches)
    /\ LET r == PatchEntry(mem, patches[patch])
       IN  IF r.applied = 0
           THEN UNCHANGED <<mem, patches, applied, last, log, outstanding, patch>>
           ELSE /\ mem' = r.mem
                /\ patches' = [patches EXCEPT ![patch] = r.entry]
                /\ applied' = applied + r.applied
                /\ last' = [op |-> "patch", idx |-> patch, kind |-> r.scan.kind,
                            pos |-> r.scan.pos, reads |-> r.scan.reads,
                            writes |-> r.writes, examined |-> r.scan.examined]
                /\ log' = Append(log, [idx |-> patch, kind |-> r.scan.kind,
                                       writes |-> r.writes, mem |-> mem])
                /\ outstanding' = outstanding \cup {patch}
                /\ patch' = patch + 1
    /\ UNCHANGED <<patches_applied, pc, memStart, patchesStart, prevPass>>

(* while (patch->fname) { ...; patch++; } *)
PatchStep ==
    /\ pc = "patch"
    /\ patch <= Len(patches)
    /\ LET r == PatchEntry(mem, patches[patch])
       IN  /\ mem' = r.mem
           /\ patches' = [patches EXCEPT ![patch] = r.entry]
           /\ applied' = applied + r.applied
           /\ last' = [op |-> "patch", idx |-> patch, kind |-> r.scan.kind,
                       pos |-> r.scan.pos, reads |-> r.scan.reads,
                       writes |-> r.writes, examined |-> r.scan.examined]
           /\ log' = Append(log, [idx |-> patch, kind |-> r.scan.kind,
                                  writes |-> r.writes, mem |-> mem])
           /\ outstanding' = IF r.scan.kind = "Found"
                              THEN outstanding \cup {patch}
                              ELSE outstanding
    /\ patch' = patch + 1
    /\ UNCHANGED <<patches_applied, pc, memStart, patchesStart, prevPass>>

(* return patches_applied; the caller stores it and returns 0 *)
PatchReturn ==
    /\ pc = "patch"
    /\ patch > Len(patches)
    /\ patches_applied' = applied
    /\ pc' = "idle"
    /\ last' = [NoStep EXCEPT !.op = "patchReturn"]
    /\ UNCHANGED <<mem, patches, patch, applied, log, memStart, patchesStart,
                   prevPass, outstanding>>

(* yf_patchkernel_exit calls yf_patchkernel_restore(patchesForTunDevice) *)
RestoreCall ==
    /\ pc = "idle"
    /\ pc' = "restore"
    /\ patch' = 1
    /\ last' = NoStep
    /\ log' = <<>>
    /\ memStart' = mem
    /\ patchesStart' = patches
    /\ prevPass' = LastPass
    /\ UNCHANGED <<mem, patches, patches_applied, applied, outstanding>>

RestoreStep ==
    /\ pc = "restore"
    /\ patch <= Len(patches)
    /\ LET r == RestoreEntry(mem, patches[patch])
       IN  /\ mem' = r.mem
           /\ patches' = [patches EXCEPT ![patch] = r.entry]
           /\ last' = [NoStep EXCEPT !.op = "restore", !.idx = patch,
                                     !.writes = r.writes]
           /\ log' = Append(log, [idx |-> patch,
                                  kind |-> IF r.writes = {} THEN "Skipped"
                                           ELSE "Reversed",
                                  writes |-> r.writes, mem |-> mem])
           /\ outstanding' = IF r.writes = {}
                              THEN outstanding
                              ELSE outstanding \ {patch}
    /\ patch' = patch + 1
    /\ UNCHANGED <<patches_applied, pc, applied, memStart, patchesStart, prevPass>>

RestoreReturn ==
    /\ pc = "restore"
    /\ patch > Len(patches)
    /\ pc' = "idle"
    /\ last' = [NoStep EXCEPT !.op = "restoreReturn"]
    /\ UNCHANGED <<mem, patches, patches_applied, patch, applied, log,
                   memStart, patchesStart, prevPass, outstanding>>

Next ==
    \/ PatchCall
    \/ PatchStep
    \/ PatchReturn
    \/ RestoreCall
    \/ RestoreStep
    \/ RestoreReturn

Spec == Init /\ [][Next]_vars

SpecScan == InitScan /\ [][Next]_vars

(* A pass that has been entered keeps running: the loops are plain         *)
(* sequential code, nothing in them waits.                                 *)
Running == PatchStep \/ PatchReturn \/ RestoreStep \/ RestoreReturn

SpecRun == InitRun /\ [][Next]_vars /\ WF_vars(Running)

----------------------------------------------------------------------------
(* Vocabulary of the properties: the window of an entry, the masked        *)
(* comparator, the positions that hold a verified match.                   *)

Base(e) == kallsyms_lookup_name(e.fname)

Resolved(e) == Base(e) # NULL

Window(e) == {Base(e) + e.startOffset + k : k \in 0 .. e.maxOffset - 1}

Matches(word, mask_and, mask_or, expected) ==
    BitOr(BitAnd(word, mask_and), mask_or) = expected

PrimaryMatch(m, e, p) == Matches(m[p], e.andMask, e.orMask, e.lookFor)

Verified(m, e, p) ==
    e.verifyOffset # 0 =>
        Matches(m[p + e.verifyOffset], e.verifyAndMask, e.verifyOrMask, e.verifyValue)

Qualifying(m, e) == {p \in Window(e) : PrimaryMatch(m, e, p) /\ Verified(m, e, p)}

HoldsPatchValue(m, e) == {q \in Window(e) : m[q + e.patchOffset] = e.patchValue}

Least(S) == CHOOSE x \in S : \A y \in S : x <= y

(* The running loop of yf_patchkernel_patch is about to look at an entry *)
AtEntry == pc = "patch" /\ patch <= Len(patches)

(* The iteration that was logged last looked at memory m *)
LastMem == log[Len(log)].mem

----------------------------------------------------------------------------
(* C1: after a patch pass and the restore pass that follows it, the word   *)
(* at the patch address of every entry the restore found patched is the    *)
(* original value that entry recorded.                                     *)
C1_RoundTrip ==
    (last.op = "restoreReturn" /\ prevPass = "patch") =>
        \A i \in DOMAIN patchesStart :
            patchesStart[i].isPatched = 1 =>
                mem[patchesStart[i].patchAddress] = patchesStart[i].originalValue

(* C2: an iteration whose scan reports Found at p sets patchAddress to     *)
(* p + patchOffset, saves the word that was there as originalValue, writes *)
(* patchValue to that address and to no other, and sets isPatched.         *)
C2_FoundIsPatched ==
    [][(AtEntry /\ last'.kind = "Found") =>
          LET e == patches[patch]
              a == last'.pos + e.patchOffset
          IN  /\ patches'[patch].patchAddress = a
              /\ patches'[patch].originalValue = mem[a]
              /\ mem' = [mem EXCEPT ![a] = e.patchValue]
              /\ patches'[patch].isPatched = 1
              /\ last'.writes = {a}]_vars

C2_Witness ==
    /\ last.op = "patch"
    /\ last.kind = "Found"
    /\ patches[last.idx].patchOffset = 1
    /\ patches[last.idx].patchAddress = last.pos + 1
    /\ mem[last.pos + 1] = patches[last.idx].patchValue
    /\ patches[last.idx].originalValue = LastMem[last.pos + 1]

(* C3 as stated: if the word at patchOffset from some position of the      *)
(* window equals patchValue, the iteration over an entry that is not       *)
(* patched leaves isPatched clear and memory as it was.                    *)
C3_Original ==
    [][(AtEntry /\ Resolved(patches[patch]) /\ patches[patch].isPatched = 0
            /\ HoldsPatchValue(mem, patches[patch]) # {}) =>
          (patches'[patch].isPatched = 0 /\ mem' = mem)]_vars

(* C3 amended: if the word at patchOffset from a position q of the window  *)
(* equals patchValue and no position of the window before q holds a        *)
(* verified match, the iteration over an entry that is not patched leaves  *)
(* isPatched clear and memory as it was, also when a later position holds  *)
(* a verified match.                                                       *)
C3_AlreadyAppliedFirst ==
    [][(AtEntry /\ Resolved(patches[patch]) /\ patches[patch].isPatched = 0
            /\ \E q \in HoldsPatchValue(mem, patches[patch]) :
                   \A p \in Qualifying(mem, patches[patch]) : ~(p < q)) =>
          (/\ patches'[patch].isPatched = 0
           /\ mem' = mem
           /\ last'.writes = {}
           /\ last'.kind = "AlreadyApplied")]_vars

C3_Witness ==
    /\ last.op = "patch"
    /\ last.kind = "AlreadyApplied"
    /\ patches[last.idx].isPatched = 0
    /\ mem = LastMem
    /\ \E p \in Qualifying(mem, patches[last.idx]) :
           p > last.pos /\ p \notin HoldsPatchValue(mem, patches[last.idx])

(* C4 as stated: the scan reports Found at the first position of the       *)
(* window that holds a verified match, and NotFound if there is none.      *)
C4_Original ==
    [][(AtEntry /\ Resolved(patches[patch])) =>
          LET Q == Qualifying(mem, patches[patch])
          IN  IF Q # {}
              THEN last'.kind = "Found" /\ last'.pos = Least(Q)
              ELSE last'.kind = "NotFound"]_vars

(* C4 amended: the scan reports Found at the first position p of the       *)
(* window that holds a verified match, unless the word at patchOffset from *)
(* p or from an earlier position equals patchValue; a position whose       *)
(* pattern matches and whose verification fails does not end the scan; if  *)
(* no position holds a verified match the result is NotFound, unless the   *)
(* word at patchOffset from some position equals patchValue. In both       *)
(* excepted cases the result is AlreadyApplied at the first such position. *)
C4_FirstMatchWins ==
    [][(AtEntry /\ Resolved(patches[patch])) =>
          LET Q == Qualifying(mem, patches[patch])
              A == HoldsPatchValue(mem, patches[patch])
          IN  IF A # {} /\ (Q = {} \/ Least(A) <= Least(Q))
              THEN last'.kind = "AlreadyApplied" /\ last'.pos = Least(A)
              ELSE IF Q # {}
              THEN last'.kind = "Found" /\ last'.pos = Least(Q)
              ELSE last'.kind = "NotFound"]_vars

C4_Witness ==
    /\ last.op = "patch"
    /\ last.kind = "Found"
    /\ \E p \in Window(patches[last.idx]) :
           /\ p < last.pos
           /\ PrimaryMatch(LastMem, patches[last.idx], p)
           /\ ~Verified(LastMem, patches[last.idx], p)

(* C5 as stated: every word the scan reads lies in the window              *)
(* [startOffset, startOffset + maxOffset) from the resolved address.       *)
C5_Original ==
    last.op = "patch" =>
        \A r \in last.reads : r.addr \in Window(patches[last.idx])

(* C5 amended: every pattern word the scan reads lies in the window; the   *)
(* words read at position + patchOffset and at position + verifyOffset     *)
(* lie in the window shifted by patchOffset and by verifyOffset, so up to  *)
(* that many words behind the end of the window.                           *)
C5_ReadsNearWindow ==
    last.op = "patch" =>
        \A r \in last.reads :
            LET e == patches[last.idx]
            IN  /\ r.role = "pattern" => r.addr \in Window(e)
                /\ r.role = "patch" => (r.addr - e.patchOffset) \in Window(e)
                /\ r.role = "verify" =>
                       e.verifyOffset # 0 /\ (r.addr - e.verifyOffset) \in Window(e)

C5_Witness ==
    /\ last.op = "patch"
    /\ \E r \in last.reads :
           r.addr \notin Window(patches[last.idx]) /\ r.role = "patch"
    /\ \E r \in last.reads :
           r.addr \notin Window(patches[last.idx]) /\ r.role = "verify"

(* C6 as stated: the count yf_patchkernel_patch returns is the number of   *)
(* entries it patched in this pass, and it is at most the number M of      *)
(* resolved entries and at most the number K of resolved entries whose     *)
(* window holds a verified match in the memory the pass was given.         *)
C6_Original ==
    last.op = "patchReturn" =>
        LET found == {k \in DOMAIN log : log[k].kind = "Found"}
            M == {k \in DOMAIN log : Resolved(patches[log[k].idx])}
            K == {k \in M : Qualifying(memStart, patches[log[k].idx]) # {}}
        IN  /\ patches_applied = Cardinality(found)
            /\ patches_applied <= Cardinality(M)
            /\ patches_applied <= Cardinality(K)

(* C6 amended: the count yf_patchkernel_patch returns is the number of     *)
(* entries it patched in this pass, one written word each; entries that    *)
(* were unresolved, found patched already or not found write nothing and   *)
(* are not counted, so the count is at most the number M of resolved       *)
(* entries and at most the number K of those whose window held a verified  *)
(* match at the time it was scanned, after the writes of the entries       *)
(* before it.                                                              *)
C6_CountOfNewPatches ==
    last.op = "patchReturn" =>
        LET found == {k \in DOMAIN log : log[k].kind = "Found"}
            M == {k \in DOMAIN log : Resolved(patches[log[k].idx])}
            K == {k \in M : Qualifying(log[k].mem, patches[log[k].idx]) # {}}
        IN  /\ patches_applied = Cardinality(found)
            /\ \A k \in DOMAIN log :
                   Cardinality(log[k].writes) = IF k \in found THEN 1 ELSE 0
            /\ found \subseteq K
            /\ patches_applied <= Cardinality(M)
            /\ patches_applied <= Cardinality(K)

C6_Witness ==
    /\ last.op = "patchReturn"
    /\ patches_applied = 1
    /\ \E k \in DOMAIN log :
           /\ log[k].kind = "AlreadyApplied"
           /\ Qualifying(log[k].mem, patches[log[k].idx]) # {}

(* C7: a restore pass that follows a restore pass changes neither memory   *)
(* nor any entry, at any of its iterations; an iteration over an entry     *)
(* whose isPatched is clear writes nothing and leaves the entry as it was. *)
C7_RestoreIdempotent ==
    /\ (last.op = "restoreReturn" /\ prevPass = "restore") =>
           (mem = memStart /\ patches = patchesStart)
    /\ (pc = "restore" /\ prevPass = "restore") =>
           (mem = memStart /\ patches = patchesStart /\ last.writes = {})
    /\ (last.op = "restore" /\ patchesStart[last.idx].isPatched = 0) =>
           (last.writes = {} /\ patches[last.idx] = patchesStart[last.idx])

C7_Witness ==
    /\ last.op = "restoreReturn"
    /\ prevPass = "restore"
    /\ \E i \in DOMAIN patches : patches[i].patchAddress # NULL
    /\ mem = memStart

(* C8 as stated: isPatched is set exactly when patchAddress and            *)
(* originalValue hold the data of an application that was not reversed;    *)
(* an entry that is not patched has both fields unset.                     *)
C8_Original ==
    \A i \in DOMAIN patches :
        /\ patches[i].isPatched = 1 => patches[i].patchAddress # NULL
        /\ patches[i].isPatched = 0 =>
               (patches[i].patchAddress = NULL /\ patches[i].originalValue = 0)

(* C8 amended: isPatched is set only while patchAddress and originalValue  *)
(* hold the data of an application that was not reversed: the two fields   *)
(* change only in an iteration that patches the entry, and isPatched is    *)
(* cleared only by the restore, which writes originalValue to patchAddress *)
(* and leaves both fields as they are.                                     *)
C8_FlagImpliesResult ==
    [][\A i \in DOMAIN patches :
          /\ patches'[i].isPatched = 1 => patches'[i].patchAddress # NULL
          /\ (patches'[i].patchAddress # patches[i].patchAddress
                  \/ patches'[i].originalValue # patches[i].originalValue) =>
                 (/\ AtEntry /\ patch = i /\ last'.kind = "Found"
                  /\ patches'[i].isPatched = 1
                  /\ patches'[i].originalValue = mem[patches'[i].patchAddress])
          /\ (patches[i].isPatched = 1 /\ patches'[i].isPatched = 0) =>
                 (/\ pc = "restore" /\ patch = i
                  /\ patches'[i].patchAddress = patches[i].patchAddress
                  /\ patches'[i].originalValue = patches[i].originalValue
                  /\ mem'[patches[i].patchAddress] = patches[i].originalValue)]_vars

C8_Witness ==
    /\ last.op = "restore"
    /\ last.writes # {}
    /\ patches[last.idx].isPatched = 0
    /\ patches[last.idx].patchAddress # NULL
    /\ last.writes = {patches[last.idx].patchAddress}

(* C9: a patch pass looks at every entry of the table once, in order,      *)
(* whatever the outcome of the entries before, and returns a count.        *)
C9_EveryEntryOnce ==
    /\ pc = "patch" =>
           /\ patch \in 1 .. Len(patches) + 1
           /\ Len(log) = patch - 1
           /\ \A k \in DOMAIN log : log[k].idx = k
    /\ last.op = "patchReturn" =>
           /\ Len(log) = Len(patches)
           /\ \A k \in DOMAIN log : log[k].idx = k
           /\ patches_applied \in 0 .. Len(patches)

C9_Witness ==
    /\ last.op = "patchReturn"
    /\ \E j, k \in DOMAIN log :
           /\ j < k
           /\ log[j].kind \in {"Unresolved", "NotFound", "AlreadyApplied"}
           /\ log[k].kind = "Found"

(* C10: the iteration over an entry whose symbol does not resolve reads    *)
(* and writes no word, leaves the entry and the count as they were and     *)
(* goes on to the next entry.                                              *)
C10_UnresolvedSkipped ==
    [][(AtEntry /\ ~Resolved(patches[patch])) =>
          /\ last'.kind = "Unresolved"
          /\ last'.reads = {}
          /\ last'.writes = {}
          /\ mem' = mem
          /\ patches' = patches
          /\ applied' = applied
          /\ pc' = "patch"
          /\ patch' = patch + 1]_vars

C10_Witness ==
    /\ pc = "patch"
    /\ Len(log) = 2
    /\ log[1].kind = "Unresolved"
    /\ log[2].kind = "Found"
    /\ patches[1].startAddress = NULL
    /\ applied = 1

----------------------------------------------------------------------------
(* C11: in every state of a patch pass and of a restore pass, every word   *)
(* other than the patch addresses of the entries the patch pass patched,   *)
(* and of the patched entries the restore pass was given, has the value it *)
(* had when the pass was entered; every iteration writes at most one word, *)
(* and only an iteration that patches or reverses writes at all.           *)
C11_OnlyPatchedWordsChange ==
    /\ (pc = "patch" \/ last.op = "patchReturn") =>
           \A a \in Addr :
               mem[a] # memStart[a] =>
                   \E k \in DOMAIN log :
                       /\ log[k].kind = "Found"
                       /\ a = patches[log[k].idx].patchAddress
    /\ (pc = "restore" \/ last.op = "restoreReturn") =>
           \A a \in Addr :
               mem[a] # memStart[a] =>
                   \E i \in DOMAIN patchesStart :
                       /\ patchesStart[i].isPatched = 1
                       /\ a = patchesStart[i].patchAddress
    /\ \A k \in DOMAIN log :
           /\ Cardinality(log[k].writes) <= 1
           /\ log[k].writes # {} =>
                  /\ log[k].kind \in {"Found", "Reversed"}
                  /\ log[k].writes = {patches[log[k].idx].patchAddress}

C11_Witness ==
    /\ last.op = "restoreReturn"
    /\ prevPass = "patch"
    /\ mem # memStart
    /\ \E j, k \in DOMAIN log : log[j].kind = "Reversed" /\ log[k].kind = "Skipped"
    /\ \E a \in Addr : mem[a] = memStart[a]

(* The orders the entries of the table can be written in *)
Orders ==
    {f \in [DOMAIN patches -> DOMAIN patches] :
        \A i, j \in DOMAIN patches : f[i] = f[j] => i = j}

Permuted(ps, f) == [i \in DOMAIN ps |-> ps[f[i]]]

(* Every word an entry's scan can read or its patch can write *)
Footprint(e) ==
    IF Resolved(e)
    THEN UNION {{p, p + e.patchOffset, p + e.verifyOffset} : p \in Window(e)}
    ELSE {}

(* The first patch pass has returned; had the table been written in the    *)
(* order f, every entry would have had the same outcome and result fields, *)
(* the count and the memory would be the same, and so would the memory     *)
(* after the restore pass that follows.                                    *)
SameInOrder(f) ==
    LET other == yf_patchkernel_patch(memStart, Permuted(patchesStart, f))
    IN  /\ other.mem = mem
        /\ other.patches_applied = patches_applied
        /\ \A i \in DOMAIN patches :
               /\ other.kinds[i] = log[f[i]].kind
               /\ other.patches[i] = patches[f[i]]
        /\ yf_patchkernel_restore(other.mem, other.patches).mem =
               yf_patchkernel_restore(mem, patches).mem

(* No entry of the pass has written a word another entry can reach *)
NoSharedWord ==
    \A k \in DOMAIN log : \A j \in DOMAIN patchesStart :
        j # log[k].idx => log[k].writes \cap Footprint(patchesStart[j]) = {}

(* C12 as stated: whatever the order of the entries and whatever the       *)
(* memory, the first patch pass gives every entry the same outcome, the    *)
(* same count and the same memory, and the restore pass after it the same  *)
(* memory, also for entries whose windows overlap.                         *)
C12_Original ==
    (last.op = "patchReturn" /\ prevPass = "none") =>
        \A f \in Orders : SameInOrder(f)

(* C12: the same, for the passes in which no entry patched a word that     *)
(* lies in the window of another entry or at that entry's patchOffset or   *)
(* verifyOffset from it.                                                   *)
C12_IndependentWhenDisjoint ==
    (last.op = "patchReturn" /\ prevPass = "none" /\ NoSharedWord) =>
        \A f \in Orders : SameInOrder(f)

C12_Witness ==
    /\ last.op = "patchReturn"
    /\ prevPass = "none"
    /\ NoSharedWord
    /\ Cardinality({k \in DOMAIN log : log[k].kind = "Found"}) >= 2
    /\ \E k \in DOMAIN log : log[k].idx = 1 /\ log[k].kind = "Found"
    /\ \A f \in Orders : SameInOrder(f)

(* C13: in a patch pass that follows a patch pass with no restore pass in  *)
(* between, the iteration over an entry that is already patched writes no  *)
(* word, counts nothing and leaves the entry's patchAddress and            *)
(* originalValue as they were.                                             *)
C13_NeverPatchedTwice ==
    [][(AtEntry /\ prevPass = "patch" /\ patches[patch].isPatched = 1) =>
          /\ mem' = mem
          /\ applied' = applied
          /\ patches'[patch].patchAddress = patches[patch].patchAddress
          /\ patches'[patch].originalValue = patches[patch].originalValue]_vars

(* The scan with the verification left out: the first position, in         *)
(* ascending order, whose word at patchOffset is patchValue or whose word  *)
(* matches the pattern ends it.                                            *)
RECURSIVE ScanWithoutVerification(_, _, _, _)
ScanWithoutVerification(m, e, p, examined) ==
    IF examined >= e.maxOffset
    THEN [kind |-> "NotFound", pos |-> NULL, examined |-> examined]
    ELSE IF m[p + e.patchOffset] = e.patchValue
    THEN [kind |-> "AlreadyApplied", pos |-> p, examined |-> examined + 1]
    ELSE IF PrimaryMatch(m, e, p)
    THEN [kind |-> "Found", pos |-> p, examined |-> examined + 1]
    ELSE ScanWithoutVerification(m, e, p + 1, examined + 1)

(* C14: for an entry with verifyOffset zero the iteration ends as the scan *)
(* without verification does, at the same position and after as many      *)
(* positions, patches the same word, and reads no word for verification,   *)
(* whatever verifyValue, verifyAndMask and verifyOrMask are.               *)
C14_ZeroOffsetSkipsVerification ==
    [][(AtEntry /\ Resolved(patches[patch]) /\ patches[patch].verifyOffset = 0) =>
          LET e == patches[patch]
              s == ScanWithoutVerification(mem, e, Base(e) + e.startOffset, 0)
          IN  /\ last'.kind = s.kind
              /\ last'.pos = s.pos
              /\ last'.examined = s.examined
              /\ \A r \in last'.reads : r.role # "verify"
              /\ mem' = IF s.kind = "Found"
                        THEN [mem EXCEPT ![s.pos + e.patchOffset] = e.patchValue]
                        ELSE mem
              /\ patches'[patch] =
                     IF s.kind = "Found"
                     THEN [e EXCEPT !.startAddress = Base(e),
                                    !.patchAddress = s.pos + e.patchOffset,
                                    !.originalValue = mem[s.pos + e.patchOffset],
                                    !.isPatched = 1]
                     ELSE [e EXCEPT !.startAddress = Base(e)]]_vars

C14_Witness ==
    /\ last.op = "patch"
    /\ last.kind = "Found"
    /\ last.examined = 2
    /\ patches[last.idx].verifyOffset = 0
    /\ mem[last.pos + patches[last.idx].patchOffset] = patches[last.idx].patchValue
    /\ ~Matches(LastMem[last.pos], patches[last.idx].verifyAndMask,
                patches[last.idx].verifyOrMask, patches[last.idx].verifyValue)

(* The running loop of yf_patchkernel_restore is about to look at an entry *)
AtRestoreEntry == pc = "restore" /\ patch <= Len(patches)

(* C15: an iteration of the restore loop writes only for an entry that a   *)
(* patch pass has patched and no restore pass has reversed since, and then *)
(* it writes the word at that entry's patchAddress; for every other entry  *)
(* it writes nothing and leaves the entry as it is.                        *)
C15_RestoreOnlyFromPatched ==
    [][AtRestoreEntry =>
          /\ last'.writes # {} => patch \in outstanding
          /\ patch \in outstanding =>
                 last'.writes = {patches[patch].patchAddress}
          /\ patch \notin outstanding =>
                 /\ mem' = mem
                 /\ patches' = patches
                 /\ last'.writes = {}]_vars

C15_Witness ==
    /\ last.op = "restoreReturn"
    /\ outstanding = {}
    /\ log[1].kind = "Reversed"
    /\ log[2].kind = "Skipped"
    /\ patchesStart[2].startAddress # NULL
    /\ patchesStart[2].patchAddress # NULL
    /\ patchesStart[2] = patches[2]

(* C16: every iteration of the patch loop ends with one outcome, Found,    *)
(* AlreadyApplied or NotFound for a resolved symbol, after at most         *)
(* maxOffset positions, and NotFound only after all of them; every earlier *)
(* entry has its outcome before the next one is looked at; and every pass  *)
(* that is entered returns.                                                *)
C16_EveryPassTerminates ==
    /\ [](last.op = "patch" =>
             LET e == patches[last.idx]
             IN  /\ Resolved(e) =>
                        /\ last.kind \in {"Found", "AlreadyApplied", "NotFound"}
                        /\ 1 <= last.examined
                        /\ last.examined <= e.maxOffset
                        /\ last.kind = "NotFound" => last.examined = e.maxOffset
                 /\ ~Resolved(e) => last.kind = "Unresolved" /\ last.examined = 0)
    /\ [](pc # "idle" => Len(log) = patch - 1 /\ patch <= Len(patches) + 1)
    /\ (pc = "patch" ~> last.op = "patchReturn")
    /\ (pc = "restore" ~> last.op = "restoreReturn")

C16_Witness ==
    /\ last.op = "patchReturn"
    /\ Len(log) = Len(patches)
    /\ log[1].kind = "NotFound"
    /\ log[Len(log)].kind = "Found"
    /\ prevPass = "restore"

(* C17: the originalValue an iteration records when it patches differs     *)
(* from the entry's patchValue, and the word it writes changes.            *)
C17_PatchChangesWord ==
    [][(AtEntry /\ last'.kind = "Found") =>
          LET e == patches'[patch]
          IN  /\ e.originalValue # e.patchValue
              /\ mem'[e.patchAddress] # mem[e.patchAddress]
              /\ mem' # mem]_vars

C17_Witness ==
    /\ last.op = "patch"
    /\ last.kind = "Found"
    /\ last.examined = 2
    /\ patches[last.idx].originalValue # patches[last.idx].patchValue
    /\ mem # LastMem
    /\ patches[last.idx].patchOffset = 1
    /\ BitOr(BitAnd(patches[last.idx].patchValue, patches[last.idx].andMask),
             patches[last.idx].orMask) = patches[last.idx].lookFor

(* Entry i is flagged as patched and the word at its patchAddress is its   *)
(* patchValue                                                              *)
HeldPatched(m, ps, i) ==
    ps[i].isPatched = 1 /\ m[ps[i].patchAddress] = ps[i].patchValue

(* C18 as stated: in every state every entry whose isPatched is set has    *)
(* its patchValue in the word at its patchAddress.                         *)
C18_Original ==
    \A i \in DOMAIN patches :
        patches[i].isPatched = 1 => mem[patches[i].patchAddress] = patches[i].patchValue

(* C18: an iteration that patches leaves the entry with its patchValue at  *)
(* its patchAddress, and an entry that holds its patchValue there and      *)
(* stays flagged loses it only by an iteration over another entry that     *)
(* writes that word.                                                       *)
C18_HeldUntilOverwritten ==
    [][/\ (AtEntry /\ last'.kind = "Found") => HeldPatched(mem', patches', patch)
       /\ \A i \in DOMAIN patches :
              (HeldPatched(mem, patches, i) /\ patches'[i].isPatched = 1) =>
                  \/ HeldPatched(mem', patches', i)
                  \/ /\ pc \in {"patch", "restore"}
                     /\ patch # i
                     /\ patches[i].patchAddress \in last'.writes]_vars

C18_Witness ==
    /\ last.op = "patch"
    /\ last.kind = "Found"
    /\ last.idx = 2
    /\ patches[1].isPatched = 1
    /\ patches[1].patchAddress \in last.writes
    /\ HeldPatched(LastMem, patches, 1)
    /\ ~HeldPatched(mem, patches, 1)
    /\ HeldPatched(mem, patches, 2)

(* C19: when a patch pass that was entered with no entry flagged has       *)
(* returned, a restore pass and a further patch pass end in the same       *)
(* memory, with the same patchAddress, originalValue and isPatched in      *)
(* every entry, and with the same count.                                   *)
C19_LifecycleRepeats ==
    (last.op = "patchReturn" /\ prevPass \in {"none", "restore"}) =>
        LET reversed == yf_patchkernel_restore(mem, patches)
            again == yf_patchkernel_patch(reversed.mem, reversed.patches)
        IN  /\ again.mem = mem
            /\ again.patches_applied = patches_applied
            /\ \A i \in DOMAIN patches :
                   /\ again.patches[i].patchAddress = patches[i].patchAddress
                   /\ again.patches[i].originalValue = patches[i].originalValue
                   /\ again.patches[i].isPatched = patches[i].isPatched

====
